---- MODULE Spec2Model ----
(***************************************************************************)
(* A model of playlist.py: the genre registry, the song collector, the     *)
(* sampler, the M3U writer and the portable copier, run as main() runs     *)
(* them.  A Python str or Path is a sequence of character codes, so that   *)
(* upper(), lower(), sorted(), stem/suffix and the f-strings are computed  *)
(* as the code computes them.                                              *)
(***************************************************************************)
EXTENDS Integers, Sequences, FiniteSets, TLC

(* ------------------------------ bounds -------------------------------- *)
\* --count ranges over -1..MaxCount (and "not given")
MaxCount == 3
\* --genres lists have at most MaxReq names
MaxReq == 2
\* a scanned genre folder lists at most MaxFiles entries
MaxFiles == 2
\* the target directory holds at most MaxPre files before the run
MaxPre == 1

(* --------------------------- str operations --------------------------- *)
\* str.upper() on ASCII text
Upper(s) == [i \in 1..Len(s) |-> IF s[i] \in 97..122 THEN s[i] - 32 ELSE s[i]]

\* str.lower() on ASCII text
Lower(s) == [i \in 1..Len(s) |-> IF s[i] \in 65..90 THEN s[i] + 32 ELSE s[i]]

\* the order of str under <, which sorted() uses: lexicographic by code point
StrLess(a, b) ==
    \E k \in 0..Len(a) :
        /\ k <= Len(b)
        /\ \A i \in 1..k : a[i] = b[i]
        /\ \/ k = Len(a) /\ k < Len(b)
           \/ k < Len(a) /\ k < Len(b) /\ a[k + 1] < b[k + 1]

\* sorted(S) for a set of str
RECURSIVE Sorted(_)
Sorted(S) ==
    IF S = {} THEN <<>>
    ELSE LET m == CHOOSE x \in S : \A y \in S : x = y \/ StrLess(x, y)
         IN  <<m>> \o Sorted(S \ {m})

\* sep.join(seq)
RECURSIVE Join(_, _)
Join(sep, seq) ==
    IF seq = <<>> THEN <<>>
    ELSE IF Len(seq) = 1 THEN seq[1]
    ELSE seq[1] \o sep \o Join(sep, Tail(seq))

\* str(n) for an int n >= 0, as an f-string formats it
RECURSIVE IntToStr(_)
IntToStr(n) ==
    IF n < 10 THEN <<48 + n>> ELSE IntToStr(n \div 10) \o <<48 + (n % 10)>>

\* s.rfind(c), 1-based, 0 when c does not occur
RFind(s, c) ==
    IF \E i \in 1..Len(s) : s[i] = c
    THEN CHOOSE i \in 1..Len(s) : s[i] = c /\ \A j \in (i + 1)..Len(s) : s[j] # c
    ELSE 0

(* --------------------------- Path operations -------------------------- *)
\* Path.is_absolute()
IsAbsolute(p) == Len(p) > 0 /\ p[1] = 47

\* a / b
PathJoin(a, b) == IF IsAbsolute(b) THEN b ELSE a \o <<47>> \o b

\* Path.name: the final component
Name(p) == SubSeq(p, RFind(p, 47) + 1, Len(p))

\* Path.suffix: from the last dot of the name, unless it leads or ends the name
Suffix(n) ==
    LET i == RFind(n, 46)
    IN  IF 1 < i /\ i < Len(n) THEN SubSeq(n, i, Len(n)) ELSE <<>>

\* Path.stem: the name without its suffix
Stem(n) ==
    LET i == RFind(n, 46)
    IN  IF 1 < i /\ i < Len(n) THEN SubSeq(n, 1, i - 1) ELSE n

(* ------------------------------ constants ----------------------------- *)
\* {".mp3", ".flac", ".wav", ".aac", ".ogg", ".m4a", ".wma"}
AUDIO_EXTENSIONS ==
    { <<46, 109, 112, 51>>, <<46, 102, 108, 97, 99>>, <<46, 119, 97, 118>>,
      <<46, 97, 97, 99>>, <<46, 111, 103, 103>>, <<46, 109, 52, 97>>,
      <<46, 119, 109, 97>> }

\* the directory of the script, here "/s"
SCRIPT_DIR == <<47, 115>>

\* "#EXTM3U"
M3U_HEADER == <<35, 69, 88, 84, 77, 51, 85>>

\* "\n"
NL == <<10>>

(* ------------------------------- state -------------------------------- *)
VARIABLES
    envExists,   \* SCRIPT_DIR/.env exists
    values,      \* dotenv_values(env_path): a sequence of <<key, value>>
    args,        \* the parsed command line
    tree,        \* the folders on disk: path -> the entries rglob("*") yields
    files0,      \* the files on disk before the run: path -> content
    files,       \* the files on disk now: path -> content
    genres,      \* the registry load_genres returns: name -> folder
    songs,       \* what collect_songs returns
    scans,       \* the folders scan_audio_files was called on, in order
    picked,      \* the list positions random.sample chose
    selected,    \* the sample
    copied_names,\* copy_to_directory's list of destination names
    wrote,       \* the paths write_m3u was called on, in order
    made,        \* the directories mkdir was called on
    stdout,      \* lines printed to stdout
    stderr,      \* lines printed to stderr
    pc,          \* the position of main()
    status       \* the exit status once pc = "exit"

vars == << envExists, values, args, tree, files0, files, genres, songs, scans, picked,
           selected, copied_names, wrote, made, stdout, stderr, pc, status >>

inputs == << envExists, values, args, tree, files0 >>

(* ------------------------------ load_genres --------------------------- *)
\* d[k] = v on a dict held as a function
DictSet(d, k, v) == [x \in DOMAIN d \cup {k} |-> IF x = k THEN v ELSE d[x]]

\* the folder a configured value names: relative values resolve against SCRIPT_DIR
ResolveFolder(value) ==
    IF IsAbsolute(value) THEN value ELSE PathJoin(SCRIPT_DIR, value)

\* the loop of load_genres over values.items(): blank values are skipped,
\* keys are uppercased, a later key replaces an earlier equal one
RECURSIVE GenresFrom(_, _)
GenresFrom(vals, acc) ==
    IF vals = <<>> THEN acc
    ELSE LET key == vals[1][1]
             value == vals[1][2]
         IN  IF value # <<>>
             THEN GenresFrom(Tail(vals), DictSet(acc, Upper(key), ResolveFolder(value)))
             ELSE GenresFrom(Tail(vals), acc)

\* Path.exists()
Exists(p) == p \in DOMAIN files \/ p \in DOMAIN tree

(* ---------------------------- scan_audio_files ------------------------ *)
\* the files of folder.rglob("*") that are regular files with an audio suffix
RECURSIVE ScanEntries(_, _)
ScanEntries(folder, entries) ==
    IF entries = <<>> THEN <<>>
    ELSE LET f == PathJoin(folder, entries[1].rel)
             rest == ScanEntries(folder, Tail(entries))
         IN  IF entries[1].isfile /\ Lower(Suffix(Name(f))) \in AUDIO_EXTENSIONS
             THEN <<f>> \o rest
             ELSE rest

scan_audio_files(folder) ==
    IF folder \in DOMAIN tree THEN ScanEntries(folder, tree[folder]) ELSE <<>>

(* ------------------------------ collect_songs ------------------------- *)
\* a selection that compares the names as given
SelectedGenres_NoUpper(reg, requested) ==
    IF requested # <<>>
    THEN {requested[i] : i \in 1..Len(requested)}
    ELSE DOMAIN reg

\* {g.upper() for g in requested}, or every registered name
SelectedGenres(reg, requested) ==
    IF requested # <<>>
    THEN {Upper(requested[i]) : i \in 1..Len(requested)}
    ELSE DOMAIN reg

\* a check that reports every requested name, known or not
UnknownGenres_All(reg, requested) ==
    IF requested # <<>> /\ SelectedGenres(reg, requested) \ DOMAIN reg # {}
    THEN SelectedGenres(reg, requested)
    ELSE {}

\* selected - genres.keys()
UnknownGenres(reg, requested) ==
    IF requested # <<>> THEN SelectedGenres(reg, requested) \ DOMAIN reg ELSE {}

\* the loop of collect_songs over sorted(selected)
RECURSIVE CollectLoop(_, _, _)
CollectLoop(reg, names, acc) ==
    IF names = <<>> THEN acc
    ELSE LET name == names[1]
             folder == reg[name]
         IN  IF ~Exists(folder)
             THEN CollectLoop(reg, Tail(names),
                    [acc EXCEPT !.err = @ \o << <<"Warning: Folder for ", name,
                                                  " does not exist: ", folder>> >>])
             ELSE LET found == scan_audio_files(folder)
                  IN  CollectLoop(reg, Tail(names),
                        [songs |-> acc.songs \o found,
                         scans |-> acc.scans \o <<folder>>,
                         out   |-> acc.out \o << <<"  ", name, ": ",
                                                   IntToStr(Len(found)), " files found">> >>,
                         err   |-> acc.err])

\* the sequence q reversed
Reversed(q) == [i \in 1..Len(q) |-> q[Len(q) + 1 - i]]

\* a collector that does not visit the genres in ascending order
collect_songs_Unsorted(reg, requested) ==
    CollectLoop(reg, Reversed(Sorted(SelectedGenres(reg, requested))),
                [songs |-> <<>>, scans |-> <<>>, out |-> <<>>, err |-> <<>>])

collect_songs(reg, requested) ==
    CollectLoop(reg, Sorted(SelectedGenres(reg, requested)),
                [songs |-> <<>>, scans |-> <<>>, out |-> <<>>, err |-> <<>>])

(* -------------------------------- write_m3u --------------------------- *)
\* the f.write calls after the header, appended to the buffer
RECURSIVE WriteEntries(_, _)
WriteEntries(buf, entries) ==
    IF entries = <<>> THEN buf
    ELSE WriteEntries(buf \o entries[1] \o NL, Tail(entries))

\* a writer that opens the file for appending
write_m3u_Append(fs, filepath, entries) ==
    [p \in DOMAIN fs \cup {filepath} |->
        IF p = filepath
        THEN [kind |-> "text",
              data |-> WriteEntries((IF p \in DOMAIN fs THEN fs[p].data ELSE <<>>)
                                       \o M3U_HEADER \o NL, entries)]
        ELSE fs[p]]

\* open(filepath, "w") truncates; then the header and the entries are written
write_m3u(fs, filepath, entries) ==
    [p \in DOMAIN fs \cup {filepath} |->
        IF p = filepath
        THEN [kind |-> "text", data |-> WriteEntries(<<>> \o M3U_HEADER \o NL, entries)]
        ELSE fs[p]]

(* ------------------------------ unique_filename ----------------------- *)
\* the while loop of unique_filename
RECURSIVE UniqueLoop(_, _, _, _, _)
UniqueLoop(target_dir, stem, suffix, candidate, counter) ==
    IF Exists(PathJoin(target_dir, candidate))
    THEN UniqueLoop(target_dir, stem, suffix,
                    stem \o <<95>> \o IntToStr(counter) \o suffix, counter + 1)
    ELSE candidate

\* a resolver that tries the numbered name once and does not loop
unique_filename_Once(target_dir, name) ==
    IF Exists(PathJoin(target_dir, name))
    THEN Stem(name) \o <<95>> \o IntToStr(2) \o Suffix(name)
    ELSE name

unique_filename(target_dir, name) ==
    UniqueLoop(target_dir, Stem(name), Suffix(name), name, 2)

\* what shutil.copy2(song, dest) leaves at dest: the source's bytes
CopyOf(song) == [kind |-> "audio", data |-> song]

\* shutil.copy2(song, dest)
copy2(fs, song, dest) ==
    [p \in DOMAIN fs \cup {dest} |-> IF p = dest THEN CopyOf(song) ELSE fs[p]]

(* ------------------------------- inputs ------------------------------- *)
\* genre names: "rock", "Rock", "ROCK", "JAZZ", "jazz", "pop", "POP"
S_rock == <<114, 111, 99, 107>>
S_Rock == <<82, 111, 99, 107>>
S_ROCK == <<82, 79, 67, 75>>
S_JAZZ == <<74, 65, 90, 90>>
S_jazz == <<106, 97, 122, 122>>
S_pop == <<112, 111, 112>>
S_POP == <<80, 79, 80>>
\* folders: "/r", "j" (relative: /s/j), "/x" (not on disk), "/t" (the target)
S_r == <<47, 114>>
S_j == <<106>>
S_x == <<47, 120>>
S_t == <<47, 116>>
\* file names: "a.mp3", "u/a.mp3", "a_2.mp3", "b.MP3", "c.ogg", "n.txt",
\* "d.mp3", "p.m3u"
S_a_mp3 == <<97, 46, 109, 112, 51>>
S_u_a_mp3 == <<117, 47, 97, 46, 109, 112, 51>>
S_a_2_mp3 == <<97, 95, 50, 46, 109, 112, 51>>
S_b_MP3 == <<98, 46, 77, 80, 51>>
S_c_ogg == <<99, 46, 111, 103, 103>>
S_n_txt == <<110, 46, 116, 120, 116>>
S_d_mp3 == <<100, 46, 109, 112, 51>>
S_p_m3u == <<112, 46, 109, 51, 117>>

File(rel) == [rel |-> rel, isfile |-> TRUE]
Dir(rel) == [rel |-> rel, isfile |-> FALSE]

\* the .env files tried: ROCK and JAZZ configured; nothing configured; only a
\* blank value; a folder that is not on disk
CfgStd == << <<S_rock, S_r>>, <<S_JAZZ, S_j>> >>
CfgBlank == << <<S_pop, <<>> >> >>
CfgMissing == << <<S_rock, S_x>> >>
\* further .env files: one genre; a blank value beside two genres; two keys
\* that are equal once uppercased; two genres on one folder; keys out of order
Configs ==
    { CfgStd,
      << <<S_rock, S_r>> >>,
      << <<S_rock, S_r>>, <<S_JAZZ, S_j>>, <<S_pop, <<>> >> >>,
      << <<S_rock, S_r>>, <<S_Rock, S_j>> >>,
      << <<S_rock, S_r>>, <<S_jazz, S_r>> >>,
      << <<S_pop, S_j>>, <<S_JAZZ, S_x>>, <<S_rock, S_r>> >> }

\* the disk: /r holds three audio files, a text file and a directory named like
\* an audio file; /s/j holds one audio file
TreeStd ==
    [d \in {S_r, PathJoin(SCRIPT_DIR, S_j)} |->
        IF d = S_r THEN <<File(S_a_mp3), File(S_n_txt), File(S_b_MP3), Dir(S_d_mp3), File(S_c_ogg)>>
        ELSE <<File(S_a_mp3)>>]
TreeNoJazz == [d \in {S_r} |-> TreeStd[d]]

\* sequences without repeats over S, of length at most n
RECURSIVE SeqsNoRep(_, _)
SeqsNoRep(S, n) ==
    IF n = 0 THEN {<<>>}
    ELSE LET shorter == SeqsNoRep(S, n - 1)
         IN  shorter \cup {q \in {r \o <<x>> : r \in shorter, x \in S} :
                               \A i, j \in 1..Len(q) : i < j => q[i] # q[j]}

\* sequences over S of length at most n
RECURSIVE SeqsUpTo(_, _)
SeqsUpTo(S, n) ==
    IF n = 0 THEN {<<>>}
    ELSE LET shorter == SeqsUpTo(S, n - 1)
         IN  shorter \cup {q \o <<x>> : q \in shorter, x \in S}

\* the --genres lists tried
ReqNames == {S_rock, S_ROCK, S_jazz, S_POP}
Requests == SeqsUpTo(ReqNames, MaxReq)

\* the listings of /r tried by the copier runs
EntryPool == {File(S_a_mp3), File(S_u_a_mp3), File(S_a_2_mp3), File(S_n_txt)}
Listings == SeqsNoRep(EntryPool, MaxFiles)

\* the contents of the target directory before the run
PrePool == {PathJoin(S_t, S_a_mp3), PathJoin(S_t, S_a_2_mp3), PathJoin(S_t, S_p_m3u)}
PreFiles ==
    {[p \in P |-> [kind |-> "old", data |-> p]] :
        P \in {Q \in SUBSET PrePool : Cardinality(Q) <= MaxPre}}

Args(list, hasCount, count, req, copy_to, output) ==
    [list |-> list, hasCount |-> hasCount, count |-> count, genres |-> req,
     copy_to |-> copy_to, output |-> output]

\* runs that vary the command line and the configuration
InitArgs ==
    /\ envExists \in BOOLEAN
    /\ values \in {<<>>, CfgBlank, CfgMissing, CfgStd}
    /\ args \in {Args(l, TRUE, c, g, t, S_p_m3u) :
                    l \in BOOLEAN, c \in (-1)..MaxCount,
                    g \in {<<>>, <<S_rock>>, <<S_pop>>}, t \in {<<>>, S_t}}
             \cup {Args(l, FALSE, 0, g, t, S_p_m3u) :
                    l \in BOOLEAN, g \in {<<>>, <<S_rock>>, <<S_pop>>}, t \in {<<>>, S_t}}
    /\ tree = TreeStd
    /\ files0 \in {<<>>, [p \in {S_p_m3u} |-> [kind |-> "old", data |-> p]]}

\* runs that vary the registry, the requested genres and the folders on disk
InitCollect ==
    /\ envExists = TRUE
    /\ values \in Configs
    /\ args \in {Args(FALSE, TRUE, c, g, <<>>, S_p_m3u) : c \in {1, MaxCount}, g \in Requests}
    /\ tree \in {TreeStd, TreeNoJazz}
    /\ files0 = <<>>

\* runs that vary the songs, the target directory and the playlist name
InitCopy ==
    /\ envExists = TRUE
    /\ values = CfgStd
    /\ args \in {Args(FALSE, TRUE, c, <<>>, S_t, o) :
                    c \in 1..MaxCount, o \in {S_p_m3u, S_a_mp3}}
    /\ tree \in {[d \in DOMAIN TreeStd |-> IF d = S_r THEN l ELSE TreeStd[d]] :
                    l \in Listings}
    /\ files0 \in PreFiles

Init ==
    /\ InitArgs \/ InitCollect \/ InitCopy
    /\ files = files0
    /\ genres = <<>>
    /\ songs = <<>>
    /\ scans = <<>>
    /\ picked = <<>>
    /\ selected = <<>>
    /\ copied_names = <<>>
    /\ wrote = <<>>
    /\ made = {}
    /\ stdout = <<>>
    /\ stderr = <<>>
    /\ pc = "main"
    /\ status = 0

(* ------------------------------- main --------------------------------- *)
Exit(code) == pc' = "exit" /\ status' = code

\* load_genres: the .env file is missing
EnvMissing ==
    /\ pc = "main"
    /\ ~envExists
    /\ stderr' = stderr \o
         << <<"Error: No .env file found at ", PathJoin(SCRIPT_DIR, <<46, 101, 110, 118>>)>>,
            <<"Create one with genre=folder mappings. See .env.example.">> >>
    /\ Exit(1)
    /\ UNCHANGED << inputs, files, genres, songs, scans, picked, selected,
                    copied_names, wrote, made, stdout >>

\* load_genres: the .env file yields no mapping
NoMappings ==
    /\ pc = "main"
    /\ envExists
    /\ DOMAIN GenresFrom(values, <<>>) = {}
    /\ stderr' = stderr \o << <<"Error: No genre mappings found in .env file.">> >>
    /\ Exit(1)
    /\ UNCHANGED << inputs, files, genres, songs, scans, picked, selected,
                    copied_names, wrote, made, stdout >>

\* load_genres returns the registry
LoadGenres ==
    /\ pc = "main"
    /\ envExists
    /\ DOMAIN GenresFrom(values, <<>>) # {}
    /\ genres' = GenresFrom(values, <<>>)
    /\ pc' = "loaded"
    /\ UNCHANGED << inputs, files, songs, scans, picked, selected, copied_names,
                    wrote, made, stdout, stderr, status >>

\* the lines list_genres prints, for the names in sorted order
RECURSIVE ListLines(_, _)
ListLines(reg, names) ==
    IF names = <<>> THEN <<>>
    ELSE << <<"  ", names[1], ": ", reg[names[1]],
              IF Exists(reg[names[1]]) THEN " [OK]" ELSE " [NOT FOUND]">> >>
         \o ListLines(reg, Tail(names))

\* --list: list_genres, then main returns
ListGenres ==
    /\ pc = "loaded"
    /\ args.list
    /\ stdout' = stdout \o << <<"Configured genres:">> >>
                        \o ListLines(genres, Sorted(DOMAIN genres))
    /\ Exit(0)
    /\ UNCHANGED << inputs, files, genres, songs, scans, picked, selected,
                    copied_names, wrote, made, stderr >>

\* parser.error: --count is missing
CountMissing ==
    /\ pc = "loaded"
    /\ ~args.list
    /\ ~args.hasCount
    /\ stderr' = stderr \o << <<"error: --count / -n is required when not using --list">> >>
    /\ Exit(2)
    /\ UNCHANGED << inputs, files, genres, songs, scans, picked, selected,
                    copied_names, wrote, made, stdout >>

\* parser.error: --count is below 1
CountInvalid ==
    /\ pc = "loaded"
    /\ ~args.list
    /\ args.hasCount
    /\ args.count < 1
    /\ stderr' = stderr \o << <<"error: --count must be at least 1">> >>
    /\ Exit(2)
    /\ UNCHANGED << inputs, files, genres, songs, scans, picked, selected,
                    copied_names, wrote, made, stdout >>

\* main without the check of --count < 1
StartScan_Unchecked ==
    /\ pc = "loaded"
    /\ ~args.list
    /\ args.hasCount
    /\ stdout' = stdout \o << <<"Scanning folders...">> >>
    /\ pc' = "collect"
    /\ UNCHANGED << inputs, files, genres, songs, scans, picked, selected,
                    copied_names, wrote, made, stderr, status >>

\* the command line is accepted: print "Scanning folders..."
StartScan ==
    /\ pc = "loaded"
    /\ ~args.list
    /\ args.hasCount
    /\ ~(args.count < 1)
    /\ stdout' = stdout \o << <<"Scanning folders...">> >>
    /\ pc' = "collect"
    /\ UNCHANGED << inputs, files, genres, songs, scans, picked, selected,
                    copied_names, wrote, made, stderr, status >>

\* collect_songs: a requested genre is not registered
CollectUnknown ==
    /\ pc = "collect"
    /\ UnknownGenres(genres, args.genres) # {}
    /\ stderr' = stderr \o
         << <<"Error: Unknown genre(s): ",
              Join(<<44, 32>>, Sorted(UnknownGenres(genres, args.genres)))>>,
            <<"Available: ", Join(<<44, 32>>, Sorted(DOMAIN genres))>> >>
    /\ Exit(1)
    /\ UNCHANGED << inputs, files, genres, songs, scans, picked, selected,
                    copied_names, wrote, made, stdout >>

\* collect_songs returns
Collect ==
    /\ pc = "collect"
    /\ UnknownGenres(genres, args.genres) = {}
    /\ LET r == collect_songs(genres, args.genres)
       IN  /\ songs' = r.songs
           /\ scans' = scans \o r.scans
           /\ stdout' = stdout \o r.out
           /\ stderr' = stderr \o r.err
    /\ pc' = "collected"
    /\ UNCHANGED << inputs, files, genres, picked, selected, copied_names, wrote,
                    made, status >>

\* no audio file was found
NoSongs ==
    /\ pc = "collected"
    /\ songs = <<>>
    /\ stderr' = stderr \o
         << <<"Error: No audio files found in the selected genre folders.">> >>
    /\ Exit(1)
    /\ UNCHANGED << inputs, files, genres, songs, scans, picked, selected,
                    copied_names, wrote, made, stdout >>

\* min(a, b)
Min(a, b) == IF a < b THEN a ELSE b

\* a clamp that is one short
ClampedCount_OneShort(requested, available) == Min(requested, available - 1)

\* count = min(args.count, len(songs))
ClampedCount(requested, available) == Min(requested, available)

\* a sampler that draws with replacement
SamplePositions_Replacing(n, k) == [1..k -> 1..n]

\* random.sample(population, k): the choices of k list positions, none twice
SamplePositions(n, k) ==
    {p \in [1..k -> 1..n] : \A i, j \in 1..k : i # j => p[i] # p[j]}

\* the clamp, the note and the sample
Sample ==
    /\ pc = "collected"
    /\ songs # <<>>
    /\ LET count == ClampedCount(args.count, Len(songs))
           note == IF count < args.count
                   THEN << <<"Note: Only ", IntToStr(count),
                             " files available (requested ", IntToStr(args.count), ").">> >>
                   ELSE <<>>
       IN  /\ \E p \in SamplePositions(Len(songs), count) :
                /\ picked' = p
                /\ selected' = [i \in 1..count |-> songs[p[i]]]
           /\ stdout' = stdout \o note \o << <<"\nSelected ", IntToStr(count), " songs.">> >>
    /\ pc' = "selected"
    /\ UNCHANGED << inputs, files, genres, songs, scans, copied_names, wrote, made,
                    stderr, status >>

\* no --copy-to: the playlist of the songs' paths is written
WriteDirect ==
    /\ pc = "selected"
    /\ args.copy_to = <<>>
    /\ files' = write_m3u(files, args.output, selected)
    /\ wrote' = wrote \o <<args.output>>
    /\ stdout' = stdout \o << <<"Playlist written to ", args.output>> >>
    /\ Exit(0)
    /\ UNCHANGED << inputs, genres, songs, scans, picked, selected, copied_names,
                    made, stderr >>

(* --------------------------- copy_to_directory ------------------------ *)
\* --copy-to: copy_to_directory is entered and makes the target directory
CopyBegin ==
    /\ pc = "selected"
    /\ args.copy_to # <<>>
    /\ made' = made \cup {args.copy_to}
    /\ stdout' = stdout \o << <<"\nCopying files to ", args.copy_to, "...">> >>
    /\ pc' = "copy"
    /\ UNCHANGED << inputs, files, genres, songs, scans, picked, selected,
                    copied_names, wrote, stderr, status >>

\* the progress line of one iteration
CopyLine(i, n, name, dest_name) ==
    <<"  [", IntToStr(i), "/", IntToStr(n), "] Copying ", name, " -> ", dest_name>>

\* one iteration of the copy loop, the copy succeeding
CopyOne ==
    /\ pc = "copy"
    /\ Len(copied_names) < Len(selected)
    /\ LET i == Len(copied_names) + 1
           song == selected[i]
           dest_name == unique_filename(args.copy_to, Name(song))
           dest == PathJoin(args.copy_to, dest_name)
       IN  /\ stdout' = stdout \o <<CopyLine(i, Len(selected), Name(song), dest_name)>>
           /\ files' = copy2(files, song, dest)
           /\ copied_names' = Append(copied_names, dest_name)
    /\ UNCHANGED << inputs, genres, songs, scans, picked, selected, wrote, made,
                    stderr, pc, status >>

\* a failure handler that removes what the run had copied
FailedCopy_Rollback(fs, song, dest) == {files0}

\* what a failing shutil.copy2 may leave at dest: nothing, a part of the
\* source's bytes, or all of them (the metadata copy failed)
FailedCopy(fs, song, dest) ==
    { fs,
      [p \in DOMAIN fs \cup {dest} |->
          IF p = dest THEN [kind |-> "partial", data |-> song] ELSE fs[p]],
      copy2(fs, song, dest) }

\* one iteration of the copy loop, shutil.copy2 raising: the exception is not
\* caught and ends the process
CopyFail ==
    /\ pc = "copy"
    /\ Len(copied_names) < Len(selected)
    /\ LET i == Len(copied_names) + 1
           song == selected[i]
           dest_name == unique_filename(args.copy_to, Name(song))
           dest == PathJoin(args.copy_to, dest_name)
       IN  /\ stdout' = stdout \o <<CopyLine(i, Len(selected), Name(song), dest_name)>>
           /\ files' \in FailedCopy(files, song, dest)
    /\ stderr' = stderr \o << <<"Traceback (most recent call last):">> >>
    /\ Exit(1)
    /\ UNCHANGED << inputs, genres, songs, scans, picked, selected, copied_names,
                    wrote, made >>

\* after the loop: the portable playlist is written, and main returns
CopyFinish ==
    /\ pc = "copy"
    /\ Len(copied_names) = Len(selected)
    /\ LET m3u_path == PathJoin(args.copy_to, args.output)
       IN  /\ files' = write_m3u(files, m3u_path, copied_names)
           /\ wrote' = wrote \o <<m3u_path>>
           /\ stdout' = stdout \o
                << <<"\nPortable playlist written to ", m3u_path>>,
                   <<"  ", IntToStr(Len(copied_names)), " files copied to ", args.copy_to>> >>
    /\ Exit(0)
    /\ UNCHANGED << inputs, genres, songs, scans, picked, selected, copied_names,
                    made, stderr >>

Next ==
    \/ EnvMissing
    \/ NoMappings
    \/ LoadGenres
    \/ ListGenres
    \/ CountMissing
    \/ CountInvalid
    \/ StartScan
    \/ CollectUnknown
    \/ Collect
    \/ NoSongs
    \/ Sample
    \/ WriteDirect
    \/ CopyBegin
    \/ CopyOne
    \/ CopyFail
    \/ CopyFinish

Spec == Init /\ [][Next]_vars

(* ------------------------- properties: helpers ------------------------ *)
\* the number of positions of seq that hold x
Occurrences(seq, x) == Cardinality({i \in 1..Len(seq) : seq[i] = x})

\* the elements of seq
Range(seq) == {seq[i] : i \in 1..Len(seq)}

\* the paths that exist in the target directory when the i-th song is copied:
\* those there before the run and the destinations of the songs copied so far
ExistingBefore(i) ==
    DOMAIN files0 \cup {PathJoin(args.copy_to, copied_names[j]) : j \in 1..(i - 1)}

\* stem_k+ext
Numbered(base, k) == Stem(base) \o <<95>> \o IntToStr(k) \o Suffix(base)

\* "a_3.mp3"
S_a_3_mp3 == <<97, 95, 51, 46, 109, 112, 51>>

\* s.split(sep)
RECURSIVE Split(_, _)
Split(s, sep) ==
    LET n == Len(sep)
        hits == {i \in 1..(Len(s) - n + 1) : SubSeq(s, i, i + n - 1) = sep}
    IN  IF hits = {} THEN <<s>>
        ELSE LET i == CHOOSE h \in hits : \A g \in hits : h <= g
             IN  <<SubSeq(s, 1, i - 1)>> \o Split(SubSeq(s, i + n, Len(s)), sep)

\* the run ended by an uncaught exception of shutil.copy2
CopyFailed ==
    /\ pc = "exit"
    /\ stderr # <<>>
    /\ stderr[Len(stderr)][1] = "Traceback (most recent call last):"

\* nothing was written, copied or created
NoOutput == files = files0 /\ wrote = <<>> /\ copied_names = <<>> /\ made = {}

(* -------------------------------- C1 ---------------------------------- *)
\* C1: the destination name of the i-th copied song is its base name if no
\* file of that name is in the target directory at that moment (before the
\* run or copied earlier in it), otherwise the first of stem_2+ext,
\* stem_3+ext, ... that is not there; so the names of one run are pairwise
\* distinct and none is the name of a file that was there before the run.
C1_CollisionPolicy ==
    /\ \A i \in 1..Len(copied_names) :
         LET base == Name(selected[i])
             taken(n) == PathJoin(args.copy_to, n) \in ExistingBefore(i)
         IN  IF ~taken(base)
             THEN copied_names[i] = base
             ELSE \E k \in 2..(Cardinality(ExistingBefore(i)) + 2) :
                     /\ copied_names[i] = Numbered(base, k)
                     /\ ~taken(Numbered(base, k))
                     /\ \A j \in 2..(k - 1) : taken(Numbered(base, j))
    /\ \A i, j \in 1..Len(copied_names) : i # j => copied_names[i] # copied_names[j]
    /\ \A i \in 1..Len(copied_names) :
         PathJoin(args.copy_to, copied_names[i]) \notin DOMAIN files0

\* the target held a.mp3, and two sources named a.mp3 became a_2.mp3 and a_3.mp3
C1_Witness ==
    /\ PathJoin(S_t, S_a_mp3) \in DOMAIN files0
    /\ Len(selected) >= 2
    /\ Name(selected[1]) = S_a_mp3
    /\ Name(selected[2]) = S_a_mp3
    /\ Len(copied_names) >= 2
    /\ copied_names[1] = S_a_2_mp3
    /\ copied_names[2] = S_a_3_mp3

(* -------------------------------- C2 ---------------------------------- *)
\* C2: when 1 <= count <= len(songs), the selection has exactly count
\* entries, each taken from a different position of songs, so that it is a
\* sub-multiset of songs of size count (equal paths at different positions
\* are different entries).
C2_SampleWithoutReplacement ==
    (selected # <<>> /\ args.count <= Len(songs)) =>
        /\ Len(selected) = args.count
        /\ Len(picked) = args.count
        /\ \A i \in 1..Len(picked) :
             picked[i] \in 1..Len(songs) /\ selected[i] = songs[picked[i]]
        /\ \A i, j \in 1..Len(picked) : i # j => picked[i] # picked[j]
        /\ \A x \in Range(selected) : Occurrences(selected, x) <= Occurrences(songs, x)

\* a path collected twice was selected twice, from two positions
C2_Witness ==
    /\ args.count <= Len(songs)
    /\ Len(selected) = args.count
    /\ \E i, j \in 1..Len(selected) :
         i # j /\ selected[i] = selected[j] /\ picked[i] # picked[j]
    /\ \E x \in Range(songs) : Occurrences(selected, x) < Occurrences(songs, x)

(* -------------------------------- C3 ---------------------------------- *)
\* a sample was drawn and more songs were requested than were collected
Clamped == selected # <<>> /\ args.count > Len(songs)

\* "Note: Only <len> files available (requested <count>)."
NoteLine ==
    <<"Note: Only ", IntToStr(Len(songs)), " files available (requested ",
      IntToStr(args.count), ").">>

\* C3: when count > len(songs) > 0 the run does not fail on that account:
\* the sample is drawn, it is a permutation of songs, the note is printed
\* once, and the run ends with status zero and a playlist of len(songs)
\* entries (only an exception of shutil.copy2 ends it otherwise).  The note
\* is printed only when count > len(songs).
C3_Clamping ==
    /\ (pc = "collected" /\ songs # <<>>) => ENABLED Sample
    /\ Clamped =>
         /\ Len(selected) = Len(songs)
         /\ \A x \in Range(songs) : Occurrences(selected, x) = Occurrences(songs, x)
         /\ Occurrences(stdout, NoteLine) = 1
         /\ pc = "exit" =>
              /\ status = 0 \/ CopyFailed
              /\ status = 0 =>
                   /\ Len(wrote) = 1
                   /\ files[wrote[1]].kind = "text"
                   /\ Len(Split(files[wrote[1]].data, NL)) = Len(songs) + 2
    /\ (\E i \in 1..Len(stdout) : stdout[i][1] = "Note: Only ") =>
         args.count > Len(songs)

\* a clamped run over two or more songs ended with status zero
C3_Witness ==
    /\ Clamped
    /\ Len(songs) >= 2
    /\ picked[1] # 1
    /\ pc = "exit"
    /\ status = 0

(* -------------------------------- C4 ---------------------------------- *)
\* the names load_genres registers: the uppercased keys with a non-blank value
RegistryKeys ==
    {Upper(values[k][1]) : k \in {j \in 1..Len(values) : values[j][2] # <<>>}}

ConfigMissing == ~envExists
ConfigEmpty == envExists /\ RegistryKeys = {}
CountAbsent == ~args.hasCount
CountBelowOne == args.hasCount /\ args.count < 1
GenreUnknown ==
    \E i \in 1..Len(args.genres) : Upper(args.genres[i]) \notin RegistryKeys
\* the collector ran and returned no song
ZeroSongs ==
    /\ ~ConfigMissing /\ ~ConfigEmpty /\ ~args.list
    /\ ~CountAbsent /\ ~CountBelowOne /\ ~GenreUnknown
    /\ pc \notin {"main", "loaded", "collect"}
    /\ songs = <<>>

\* C4 as stated: every run that meets a fatal condition (configuration
\* missing, no usable mapping, unknown requested genre, --count missing
\* without --list, --count < 1, no song collected) exits non-zero, having
\* written and copied nothing; --count < 1 and a configuration error are
\* met before any folder is scanned.
C4_AsStated ==
    pc = "exit" =>
        /\ (ConfigMissing \/ ConfigEmpty \/ GenreUnknown \/ (CountAbsent /\ ~args.list)
              \/ CountBelowOne \/ ZeroSongs) => (status # 0 /\ NoOutput)
        /\ (CountBelowOne \/ ConfigMissing \/ ConfigEmpty) => scans = <<>>

\* C4, amended: the same for the configuration errors, and for the other
\* conditions in a run without --list; with --list and a usable
\* configuration the run exits zero whatever --count and --genres are, and
\* still writes, copies and scans nothing.
C4_FatalBeforeOutput ==
    /\ (ConfigMissing \/ ConfigEmpty
          \/ (~args.list /\ (GenreUnknown \/ CountAbsent \/ CountBelowOne))
          \/ ZeroSongs) =>
         /\ NoOutput
         /\ pc = "exit" => status # 0
    /\ (ConfigMissing \/ ConfigEmpty \/ (~args.list /\ CountBelowOne)) => scans = <<>>
    /\ (args.list /\ ~ConfigMissing /\ ~ConfigEmpty) =>
         /\ NoOutput /\ scans = <<>>
         /\ pc = "exit" => status = 0

\* a run without --list and with --count < 1 and known genres has exited
C4_Witness ==
    /\ pc = "exit"
    /\ ~args.list /\ CountBelowOne /\ ~GenreUnknown /\ ~ConfigMissing /\ ~ConfigEmpty
    /\ args.genres # <<>>
    /\ status # 0

(* -------------------------------- C5 ---------------------------------- *)
\* C5: after copy_to_directory has completed, the playlist at
\* target_dir/output_name lists exactly the len(songs) destination names, in
\* the order of the songs, and every entry names a file of target_dir that
\* is a copy of the corresponding song.
C5_PortableConsistent ==
    (pc = "exit" /\ status = 0 /\ args.copy_to # <<>> /\ ~args.list) =>
        LET m3u_path == PathJoin(args.copy_to, args.output)
        IN  /\ Len(copied_names) = Len(selected)
            /\ m3u_path \in DOMAIN files
            /\ files[m3u_path].kind = "text"
            /\ Split(files[m3u_path].data, NL) = <<M3U_HEADER>> \o copied_names \o << <<>> >>
            /\ \A i \in 1..Len(copied_names) :
                 /\ PathJoin(args.copy_to, copied_names[i]) \in DOMAIN files
                 /\ files[PathJoin(args.copy_to, copied_names[i])] = CopyOf(selected[i])

(* -------------------------------- C6 ---------------------------------- *)
\* C6: when the copy of the k-th song fails the run ends with a non-zero
\* status, no later song is copied, no playlist is written, and the k-1
\* files copied before are still in the target directory as they were copied.
C6_CopyFailureFatal ==
    CopyFailed =>
        /\ status # 0
        /\ ~ENABLED Next
        /\ wrote = <<>>
        /\ \A p \in DOMAIN files : files[p].kind # "text"
        /\ Len(copied_names) < Len(selected)
        /\ \A i \in 1..Len(copied_names) :
             /\ PathJoin(args.copy_to, copied_names[i]) \in DOMAIN files
             /\ files[PathJoin(args.copy_to, copied_names[i])] = CopyOf(selected[i])
        /\ Cardinality(DOMAIN files \ DOMAIN files0) <= Len(copied_names) + 1

\* the second or a later copy failed, leaving a part of the file behind
C6_Witness ==
    /\ CopyFailed
    /\ Len(copied_names) >= 1
    /\ \E p \in DOMAIN files : files[p].kind = "partial"

(* --------------------------- C7, C8, C9: helpers ---------------------- *)
\* main called collect_songs
CollectCalled ==
    /\ pc \notin {"main", "loaded", "collect"}
    /\ ~ConfigMissing /\ ~ConfigEmpty /\ ~args.list
    /\ ~CountAbsent /\ ~CountBelowOne

\* strictly ascending in the order of str
IsAscending(seq) == \A i \in 1..(Len(seq) - 1) : StrLess(seq[i], seq[i + 1])

\* the requested names, uppercased
UpperNames(req) == {Upper(req[i]) : i \in 1..Len(req)}

\* the genres a request selects from the registry of the state
SelectedNames == IF args.genres = <<>> THEN DOMAIN genres ELSE UpperNames(args.genres)

\* the i-th selected name in ascending order
NameAt(i) ==
    CHOOSE n \in SelectedNames :
        Cardinality({m \in SelectedNames : StrLess(m, n)}) = i - 1

\* the concatenation of part(1), ..., part(n)
RECURSIVE ConcatTo(_, _)
ConcatTo(part, n) == IF n = 0 THEN <<>> ELSE ConcatTo(part, n - 1) \o part[n]

IsWarning(m) == m[1] = "Warning: Folder for "

\* collect_songs has just returned to main
CollectReturned == pc = "collected"

(* -------------------------------- C7 ---------------------------------- *)
\* C7: given a non-empty request, if some uppercased name is not a registry
\* key the process exits non-zero before any folder is scanned, reporting
\* 'Unknown genre(s):' with exactly the unknown names in sorted order and
\* 'Available:' with all registry names in sorted order; otherwise there is
\* no such exit.
C7_UnknownGenre ==
    (CollectCalled /\ args.genres # <<>>) =>
        IF GenreUnknown
        THEN /\ pc = "exit" /\ status # 0
             /\ scans = <<>> /\ songs = <<>> /\ NoOutput
             /\ Len(stderr) = 2
             /\ stderr[1][1] = "Error: Unknown genre(s): "
             /\ LET names == Split(stderr[1][2], <<44, 32>>)
                IN  /\ IsAscending(names)
                    /\ Range(names) = UpperNames(args.genres) \ RegistryKeys
             /\ stderr[2][1] = "Available: "
             /\ LET names == Split(stderr[2][2], <<44, 32>>)
                IN  IsAscending(names) /\ Range(names) = RegistryKeys
        ELSE /\ \A i \in 1..Len(stderr) : stderr[i][1] # "Error: Unknown genre(s): "
             /\ (pc = "exit" /\ status # 0) => (ZeroSongs \/ CopyFailed)

\* a request naming POP before jazz, neither registered, was rejected with
\* the two names reported in sorted order
C7_Witness ==
    /\ CollectCalled
    /\ args.genres = <<S_POP, S_jazz>>
    /\ pc = "exit"
    /\ Len(stderr) = 2
    /\ stderr[1][2] = S_JAZZ \o <<44, 32>> \o S_POP
    /\ Cardinality(RegistryKeys) >= 1

(* -------------------------------- C8 ---------------------------------- *)
\* C8: when collect_songs returns, its result is the concatenation, in ascending genre-name
\* order, of the scan results of the selected genres whose folder exists; a
\* selected genre whose folder is missing gives one warning and no songs and
\* does not stop the others; nothing is de-duplicated.
C8_CollectorResult ==
    CollectReturned =>
        LET n == Cardinality(SelectedNames)
            present(i) == genres[NameAt(i)] \in DOMAIN tree
            part == [i \in 1..n |->
                        IF present(i) THEN scan_audio_files(genres[NameAt(i)]) ELSE <<>>]
            warn == [i \in 1..n |->
                        IF present(i) THEN <<>>
                        ELSE << <<"Warning: Folder for ", NameAt(i),
                                  " does not exist: ", genres[NameAt(i)]>> >>]
            scanned == [i \in 1..n |-> IF present(i) THEN <<genres[NameAt(i)]>> ELSE <<>>]
        IN  /\ songs = ConcatTo(part, n)
            /\ SelectSeq(stderr, IsWarning) = ConcatTo(warn, n)
            /\ scans = ConcatTo(scanned, n)

\* no genre filter, JAZZ's folder missing: the three ROCK files and one
\* warning, for JAZZ
C8_Witness ==
    /\ CollectReturned
    /\ args.genres = <<>>
    /\ DOMAIN genres = {S_ROCK, S_JAZZ}
    /\ songs = <<PathJoin(S_r, S_a_mp3), PathJoin(S_r, S_b_MP3), PathJoin(S_r, S_c_ogg)>>
    /\ Len(SelectSeq(stderr, IsWarning)) = 1
    /\ stderr[1][2] = S_JAZZ

(* -------------------------------- C9 ---------------------------------- *)
\* C9: when collect_songs returns, every request whose names are equal to
\* the given ones once uppercased gives the same song sequence, and each selected genre's folder is scanned exactly once.
C9_CaseInsensitive ==
    (CollectReturned /\ args.genres # <<>>) =>
        /\ \A r \in Requests \ {<<>>} :
             UpperNames(r) = UpperNames(args.genres) =>
                 /\ UnknownGenres(genres, r) = {}
                 /\ collect_songs(genres, r).songs = songs
                 /\ collect_songs(genres, r).scans = scans
        /\ Len(scans) = Cardinality({g \in SelectedNames : genres[g] \in DOMAIN tree})
        /\ \A g \in SelectedNames :
             genres[g] \in DOMAIN tree =>
                 Occurrences(scans, genres[g])
                     = Cardinality({h \in SelectedNames : genres[h] = genres[g]})

\* the request rock, ROCK was collected with one scan
C9_Witness ==
    /\ CollectReturned
    /\ args.genres = <<S_rock, S_ROCK>>
    /\ Len(scans) = 1
    /\ songs # <<>>

(* -------------------------------- C10 --------------------------------- *)
\* "#EXTM3U\na.mp3\na_2.mp3\n"
S_example_m3u ==
    M3U_HEADER \o <<10>> \o S_a_mp3 \o <<10>> \o S_a_2_mp3 \o <<10>>

\* the entries main or copy_to_directory passed to write_m3u
EntriesWritten == IF args.copy_to # <<>> THEN copied_names ELSE selected

\* C10: after write_m3u(path, entries) the file holds the header line and
\* then each entry, in order, each followed by a newline, and nothing else;
\* what the file held before is gone.
C10_PlaylistContent ==
    wrote # <<>> =>
        /\ Len(wrote) = 1
        /\ wrote[1] \in DOMAIN files
        /\ files[wrote[1]].kind = "text"
        /\ Split(files[wrote[1]].data, NL) = <<M3U_HEADER>> \o EntriesWritten \o << <<>> >>
        /\ EntriesWritten = <<S_a_mp3, S_a_2_mp3>> => files[wrote[1]].data = S_example_m3u

\* a playlist of two entries replaced a file that was there before the run
C10_Witness ==
    /\ wrote # <<>>
    /\ wrote[1] \in DOMAIN files0
    /\ EntriesWritten = <<S_a_mp3, S_a_2_mp3>>
====
